---- MODULE Spec2Model ----
(***************************************************************************)
(* Model of the resource-allocation engine of                              *)
(* src/app/recipe_optimizer/resources/resource.py: the three Resource      *)
(* variants (QuantityResource, SpatialResource, Item), the occupancy grid  *)
(* of a SpatialResource and its placement search.                          *)
(*                                                                         *)
(* Real lengths are fixed-point numbers: an integer n stands for n quanta, *)
(* and grid_precision is a whole number of quanta, so int(v / precision)   *)
(* is the quotient truncated towards zero and g * precision is exact (as   *)
(* it is in floating point for the power-of-two precisions 1.0, 0.5 and    *)
(* 0.25 the source uses).                                                  *)
(***************************************************************************)
EXTENDS Integers, Sequences, FiniteSets, TLC

\* ------------------------------------------------------------- bounds

\* Item lengths and widths are drawn from 1..MaxDim quanta.
MaxDim == 4

\* The rack's length and width, in quanta.
RackLength == 6
RackWidth == 4

\* A constructor's numeric arguments are drawn from -MaxArgument..MaxArgument.
MaxArgument == 1

\* An ingredient's quantity is a whole number up to MaxQuantity.
MaxQuantity == 8

\* The servings of a Recipe stay within 0..MaxServings.
MaxServings == 4

\* A Recipe holds at most MaxStages stages.
MaxStages == 2

\* ------------------------------------------------- program constants

\* main(): the rack's grid_precision=0.5, in quanta of 0.25 (the finest precision
\* main() uses); the oven's max_items=2.
RackGridPrecision == 2
OvenMaxItems == 2

\* SpatialResource.__init__: the default grid_precision=1.0, in quanta.
DefaultGridPrecision == 4

\* ---------------------------------------------------------- resources

\* The resource objects a run may construct, by class; a resource is known by its
\* identity.
SpatialResource == {"rack"}
QuantityResource == {"oven"}
Item == {"a", "b", "c"}
Resource == SpatialResource \cup QuantityResource \cup Item

\* The threads that may call into one resource at a time.
Thread == {"t1", "t2"}

VARIABLES
    dimensions,           \* SpatialResource or Item -> Dimensions, set at construction
    grid_precision,       \* SpatialResource -> quanta per cell, set at construction
    max_items,            \* QuantityResource -> Int, set at construction
    grid,                 \* [SpatialResource -> set of the cells <<x, y>> that are True]
    _children_placements, \* [SpatialResource -> dict child -> PlacedItem, in insertion order]
    _children,            \* [QuantityResource -> list of children]
    op,                   \* the method called last
    ret,                  \* what the last call returned
    frame,                \* Thread -> the add_child_resource call the thread is inside,
                          \* with its local variable placement, or None
    lock,                 \* the exclusive lock the callers hold around a call: the
                          \* thread holding it, "free", or "unused" when they take none
    recipe                \* the attributes of the Recipe, or None when none is constructed

vars == <<dimensions, grid_precision, max_items, grid, _children_placements,
          _children, op, ret, frame, lock, recipe>>

Dimensions(length, width) == [length |-> length, width |-> width]

PlacedItem(dims, position, rotated) ==
    [dimensions |-> dims, position |-> position, rotated |-> rotated]

\* Python's None, as the result of a search that found nothing.
None == [none |-> TRUE]

\* -------------------------------------------------------------- grid

\* The resources constructed so far: those whose attributes are set.
Constructed == DOMAIN dimensions \cup DOMAIN max_items

\* int(value / precision) for precision # 0: int() truncates towards zero.
IntOfQuotient(value, precision) ==
    IF value >= 0 /\ precision > 0
    THEN value \div precision
    ELSE IF value < 0 /\ precision < 0
    THEN (0 - value) \div (0 - precision)
    ELSE IF value < 0
    THEN 0 - ((0 - value) \div precision)
    ELSE 0 - (value \div (0 - precision))

\* SpatialResource.__init__: grid.shape = (int(length / p), int(width / p)).
GridShape(self) ==
    <<IntOfQuotient(dimensions[self].length, grid_precision[self]),
      IntOfQuotient(dimensions[self].width, grid_precision[self])>>

_to_grid_units(self, value) == IntOfQuotient(value, grid_precision[self])

_from_grid_units(self, value) == value * grid_precision[self]

\* The cells of a[x:x + l, y:y + w] for an array of the given shape: numpy
\* clips a slice to the array (x, y, l, w >= 0 here).
Slice(shape, x, l, y, w) ==
    {c \in (0..(shape[1] - 1)) \X (0..(shape[2] - 1)) :
        /\ x <= c[1] /\ c[1] < x + l
        /\ y <= c[2] /\ c[2] < y + w}

\* Every cell of a SpatialResource's grid.
Cells(self) == Slice(GridShape(self), 0, GridShape(self)[1], 0, GridShape(self)[2])

SetMin(S) == CHOOSE m \in S : \A n \in S : m <= n
SetMax(S) == CHOOSE m \in S : \A n \in S : m >= n

\* range(n) as a sequence: empty when n <= 0.
Range(n) == [i \in 1..n |-> i - 1]

\* ------------------------------------------------- placement search

\* float('inf') as the initial min_waste: no waste (a cell count >= 0) is below it.
Inf == -1

\* Anchors with one x and one y too many: range(grid.shape[0] - l + 2) and
\* range(grid.shape[1] - w + 2).
AnchorsOneTooMany(shape, l, w, rotated) ==
    LET nx == shape[1] - l + 2
        ny == shape[2] - w + 2
    IN  IF nx <= 0 \/ ny <= 0
        THEN <<>>
        ELSE [k \in 1..(nx * ny) |->
                [l |-> l, w |-> w, rotated |-> rotated,
                 x |-> Range(nx)[((k - 1) \div ny) + 1],
                 y |-> Range(ny)[((k - 1) % ny) + 1]]]

\* The anchors one orientation (l, w, rotated) contributes, in the order of
\*   for x in range(grid.shape[0] - l + 1):
\*       for y in range(grid.shape[1] - w + 1):
Anchors(shape, l, w, rotated) ==
    LET nx == shape[1] - l + 1
        ny == shape[2] - w + 1
    IN  IF nx <= 0 \/ ny <= 0
        THEN <<>>
        ELSE [k \in 1..(nx * ny) |->
                [l |-> l, w |-> w, rotated |-> rotated,
                 x |-> Range(nx)[((k - 1) \div ny) + 1],
                 y |-> Range(ny)[((k - 1) % ny) + 1]]]

\* ScanOrder with the rotated orientation scanned first.
ScanOrderRotatedFirst(shape, length, width) ==
    Anchors(shape, width, length, TRUE) \o Anchors(shape, length, width, FALSE)

\* orientations = [(length, width, False), (width, length, True)], scanned in turn.
ScanOrder(shape, length, width) ==
    Anchors(shape, length, width, FALSE) \o Anchors(shape, width, length, TRUE)

\* not grid[x:x + l, y:y + w].any()
IsFree(shape, g, a) == Slice(shape, a.x, a.l, a.y, a.w) \cap g = {}

\* The waste of one feasible anchor: the area of the bounding box of every True
\* cell of the grid with the candidate marked, minus the True cells inside it.
Waste(shape, g, a) ==
    LET temp_grid == g \cup Slice(shape, a.x, a.l, a.y, a.w)
        placed_rows == {c[1] : c \in temp_grid}
        placed_cols == {c[2] : c \in temp_grid}
        empty == placed_rows = {} \/ placed_cols = {}
        min_x == IF empty THEN 0 ELSE SetMin(placed_rows)
        max_x == IF empty THEN a.l ELSE SetMax(placed_rows) + 1
        min_y == IF empty THEN 0 ELSE SetMin(placed_cols)
        max_y == IF empty THEN a.w ELSE SetMax(placed_cols) + 1
        used_cells == Cardinality(
            temp_grid \cap Slice(shape, min_x, max_x - min_x, min_y, max_y - min_y))
        total_area == (max_x - min_x) * (max_y - min_y)
    IN  total_area - used_cells

\* The PlacedItem the search builds for an anchor: its dimensions are the l and w of
\* the orientation being scanned, converted back to real units.
NewPlacement(self, a) ==
    PlacedItem(Dimensions(_from_grid_units(self, a.l), _from_grid_units(self, a.w)),
               <<a.x, a.y>>, a.rotated)

\* Improves without the comparison: the first feasible anchor is kept.
ImprovesOnNothing(waste, min_waste) == min_waste = Inf

\* Improves with <= for <: a tie replaces the best one so far.
ImprovesOrTies(waste, min_waste) == min_waste = Inf \/ waste <= min_waste

\* if waste < min_waste: the anchor replaces the best one so far.
Improves(waste, min_waste) == min_waste = Inf \/ waste < min_waste

\* The loop body over the anchors i..Len(scan), carrying best_placement and min_waste.
RECURSIVE ScanFrom(_, _, _, _, _, _)
ScanFrom(self, g, scan, i, best_placement, min_waste) ==
    IF i > Len(scan)
    THEN best_placement
    ELSE LET a == scan[i]
         IN  IF IsFree(GridShape(self), g, a)
                /\ Improves(Waste(GridShape(self), g, a), min_waste)
             THEN ScanFrom(self, g, scan, i + 1, NewPlacement(self, a),
                           Waste(GridShape(self), g, a))
             ELSE ScanFrom(self, g, scan, i + 1, best_placement, min_waste)

\* SpatialResource._find_optimal_placement_on_grid(length, width, grid)
_find_optimal_placement_on_grid(self, length, width, g) ==
    ScanFrom(self, g, ScanOrder(GridShape(self), length, width), 1, None, Inf)

\* The extents add_child_resource marks for a placement of a child whose grid
\* footprint is (child_length, child_width):
\*   l, w = (child_width, child_length) if placement.rotated else (child_length, child_width)
PlacedExtents(child_length, child_width, placement) ==
    IF placement.rotated
    THEN <<child_width, child_length>>
    ELSE <<child_length, child_width>>

\* The cells of self.grid[x:x + l, y:y + w] for that placement.
MarkedCells(self, child_length, child_width, placement) ==
    LET lw == PlacedExtents(child_length, child_width, placement)
    IN  Slice(GridShape(self), placement.position[1], lw[1], placement.position[2], lw[2])

\* The cells remove_child_resource clears for a stored placement: the stored
\* dimensions converted to grid units, swapped when the placement is rotated.
ClearedCells(self, placement) ==
    LET sl == _to_grid_units(self, placement.dimensions.length)
        sw == _to_grid_units(self, placement.dimensions.width)
        l == IF placement.rotated THEN sw ELSE sl
        w == IF placement.rotated THEN sl ELSE sw
    IN  Slice(GridShape(self), placement.position[1], l, placement.position[2], w)

\* ------------------------------------- the dict child -> PlacedItem

\* A dict as the sequence of its items in insertion order.
Keys(d) == [i \in 1..Len(d) |-> d[i].child]

HasKey(d, k) == \E i \in 1..Len(d) : d[i].child = k

Get(d, k) == d[CHOOSE i \in 1..Len(d) : d[i].child = k].placement

\* d[k] = v: an existing key keeps its place, a new key goes last.
Put(d, k, v) ==
    IF HasKey(d, k)
    THEN [i \in 1..Len(d) |-> IF d[i].child = k THEN [child |-> k, placement |-> v] ELSE d[i]]
    ELSE Append(d, [child |-> k, placement |-> v])

\* del d[k]
Del(d, k) == SelectSeq(d, LAMBDA e : e.child # k)

\* isinstance(child, (SpatialResource, Item))
IsSpatialOrItem(child) == child \in SpatialResource \cup Item

\* -------------------------------------------------- QuantityResource

\* HasRoom with <= for <.
HasRoomForOneMore(self, list) == Len(list) <= max_items[self]

\* len(self._children) < self.max_items
HasRoom(self, list) == Len(list) < max_items[self]

\* QuantityResource.can_add_child
QuantityResource_can_add_child(self, child) == HasRoom(self, _children[self])

\* QuantityResource.get_children: a copy of the list.
QuantityResource_get_children(self) == _children[self]

\* QuantityResource.is_full
QuantityResource_is_full(self) == Len(_children[self]) >= max_items[self]

\* child in list
IsIn(list, child) == \E i \in 1..Len(list) : list[i] = child

\* list.remove(child): the first occurrence goes.
ListRemove(list, child) ==
    LET first == CHOOSE i \in 1..Len(list) :
                     list[i] = child /\ \A j \in 1..(i - 1) : list[j] # child
    IN  [i \in 1..(Len(list) - 1) |-> IF i < first THEN list[i] ELSE list[i + 1]]

\* What a call on a QuantityResource returns and leaves behind.
QuantityOutcome(result, list) == [ret |-> result, _children |-> list]

\* QuantityResource.add_child_resource on the list self._children.
QuantityResource_add_child_resource(self, list, child) ==
    IF ~HasRoom(self, list)
    THEN QuantityOutcome(FALSE, list)
    ELSE QuantityOutcome(TRUE, Append(list, child))

\* QuantityResource.remove_child_resource on the list self._children.
QuantityResource_remove_child_resource(self, list, child) ==
    IF IsIn(list, child)
    THEN QuantityOutcome(TRUE, ListRemove(list, child))
    ELSE QuantityOutcome(FALSE, list)

\* -------------------------------------------------------------- Item

\* Item.get_children
Item_get_children(self) == <<>>

\* Item.can_add_child
Item_can_add_child(self, child) == FALSE

\* Item.add_child_resource returning True.
Item_add_child_resource_accepting(self, child) == TRUE

\* Item.add_child_resource
Item_add_child_resource(self, child) == FALSE

\* Item.remove_child_resource
Item_remove_child_resource(self, child) == FALSE

\* Item.is_full
Item_is_full(self) == TRUE

\* Item.is_empty
Item_is_empty(self) == TRUE

\* --------------------------------------------------- SpatialResource

\* can_add_child's loop over self.get_children(): every existing child is searched
\* a place on temp_grid and, when one is found, marked there.
RECURSIVE AccountForExisting(_, _, _, _)
AccountForExisting(self, existing, i, temp_grid) ==
    IF i > Len(existing)
    THEN temp_grid
    ELSE LET child_length == _to_grid_units(self, dimensions[existing[i]].length)
             child_width == _to_grid_units(self, dimensions[existing[i]].width)
             placement == _find_optimal_placement_on_grid(self, child_length,
                              child_width, temp_grid)
         IN  AccountForExisting(self, existing, i + 1,
                 IF placement # None
                 THEN temp_grid \cup MarkedCells(self, child_length, child_width, placement)
                 ELSE temp_grid)

\* ProbeGrid with temp_grid starting as np.zeros_like(self.grid) instead of
\* self.grid.copy().
ProbeGridFromZeros(self) ==
    AccountForExisting(self, Keys(_children_placements[self]), 1, {})

\* The grid can_add_child probes for the new child: a copy of self.grid with the
\* existing children accounted for.
ProbeGrid(self) ==
    AccountForExisting(self, Keys(_children_placements[self]), 1, grid[self])

\* SpatialResource.can_add_child
SpatialResource_can_add_child(self, child) ==
    /\ IsSpatialOrItem(child)
    /\ _find_optimal_placement_on_grid(self,
           _to_grid_units(self, dimensions[child].length),
           _to_grid_units(self, dimensions[child].width),
           ProbeGrid(self)) # None

\* ------------------------------------------------------------ calls

\* What a call on a SpatialResource returns and leaves behind.
Outcome(result, g, placements) ==
    [ret |-> result, grid |-> g, _children_placements |-> placements]

\* SpatialResource.add_child_resource with the placement stored in the dict before
\* it is tested for None.
AddChildResourceStoringFirst(self, g, placements, child) ==
    IF ~IsSpatialOrItem(child)
    THEN Outcome(FALSE, g, placements)
    ELSE LET child_length == _to_grid_units(self, dimensions[child].length)
             child_width == _to_grid_units(self, dimensions[child].width)
             placement == _find_optimal_placement_on_grid(self, child_length,
                              child_width, g)
         IN  IF placement = None
             THEN Outcome(FALSE, g, Put(placements, child, placement))
             ELSE Outcome(TRUE,
                          g \cup MarkedCells(self, child_length, child_width, placement),
                          Put(placements, child, placement))

\* SpatialResource.add_child_resource with self.grid assigned the new rectangle
\* instead of having the rectangle's cells set in it.
AddChildResourceAssigningGrid(self, g, placements, child) ==
    IF ~IsSpatialOrItem(child)
    THEN Outcome(FALSE, g, placements)
    ELSE LET child_length == _to_grid_units(self, dimensions[child].length)
             child_width == _to_grid_units(self, dimensions[child].width)
             placement == _find_optimal_placement_on_grid(self, child_length,
                              child_width, g)
         IN  IF placement = None
             THEN Outcome(FALSE, g, placements)
             ELSE Outcome(TRUE,
                          MarkedCells(self, child_length, child_width, placement),
                          Put(placements, child, placement))

\* SpatialResource.add_child_resource on the grid g and the dict placements.
SpatialResource_add_child_resource(self, g, placements, child) ==
    IF ~IsSpatialOrItem(child)
    THEN Outcome(FALSE, g, placements)
    ELSE LET child_length == _to_grid_units(self, dimensions[child].length)
             child_width == _to_grid_units(self, dimensions[child].width)
             placement == _find_optimal_placement_on_grid(self, child_length,
                              child_width, g)
         IN  IF placement = None
             THEN Outcome(FALSE, g, placements)
             ELSE Outcome(TRUE,
                          g \cup MarkedCells(self, child_length, child_width, placement),
                          Put(placements, child, placement))

\* SpatialResource.remove_child_resource on the grid g and the dict placements.
SpatialResource_remove_child_resource(self, g, placements, child) ==
    IF ~HasKey(placements, child)
    THEN Outcome(FALSE, g, placements)
    ELSE Outcome(TRUE, g \ ClearedCells(self, Get(placements, child)),
                 Del(placements, child))

\* SpatialResource.get_utilization: np.sum(self.grid) / self.grid.size, as the
\* fraction <<numerator, denominator>>.
Utilization(self, g) == <<Cardinality(g), GridShape(self)[1] * GridShape(self)[2]>>

SpatialResource_get_utilization(self) == Utilization(self, grid[self])

\* SpatialResource.get_children: list(self._children_placements.keys())
SpatialResource_get_children(self) == Keys(_children_placements[self])

\* SpatialResource.is_full: not np.any(self.grid == False)
SpatialResource_is_full(self) == ~(\E c \in Cells(self) : c \notin grid[self])

\* SpatialResource.is_empty: not np.any(self.grid)
SpatialResource_is_empty(self) == ~(\E c \in Cells(self) : c \in grid[self])

\* p <= q for two fractions with positive denominators.
AtMost(p, q) == p[1] * q[2] <= q[1] * p[2]

\* int(value) for a real length: a length of 1.0 is DefaultGridPrecision quanta.
int(value) == IntOfQuotient(value, DefaultGridPrecision)

\* SpatialResource._can_place_at on the grid g.
_can_place_at(self, g, length, width, pos_x, pos_y) ==
    IF pos_x + length > GridShape(self)[1] \/ pos_y + width > GridShape(self)[2]
    THEN FALSE
    ELSE Slice(GridShape(self), pos_x, length, pos_y, width) \cap g = {}

\* The loop body of _find_optimal_placement over the anchors i..Len(scan): the
\* PlacedItem built carries the length and width the caller passed.
RECURSIVE ItemScanFrom(_, _, _, _, _, _, _, _)
ItemScanFrom(self, g, length, width, scan, i, best_placement, min_waste) ==
    IF i > Len(scan)
    THEN best_placement
    ELSE LET a == scan[i]
         IN  IF _can_place_at(self, g, a.l, a.w, a.x, a.y)
                /\ Improves(Waste(GridShape(self), g, a), min_waste)
             THEN ItemScanFrom(self, g, length, width, scan, i + 1,
                               PlacedItem(Dimensions(length, width), <<a.x, a.y>>,
                                          a.rotated),
                               Waste(GridShape(self), g, a))
             ELSE ItemScanFrom(self, g, length, width, scan, i + 1, best_placement,
                               min_waste)

\* SpatialResource._find_optimal_placement(length, width) on the grid g: the
\* footprint is (int(length), int(width)) cells, whatever the grid_precision.
_find_optimal_placement(self, g, length, width) ==
    ItemScanFrom(self, g, length, width,
                 ScanOrder(GridShape(self), int(length), int(width)), 1, None, Inf)

\* The cells add_item marks for a placement.
ItemCells(self, length, width, found) ==
    LET l == IF found.rotated THEN int(width) ELSE int(length)
        w == IF found.rotated THEN int(length) ELSE int(width)
    IN  Slice(GridShape(self), found.position[1], l, found.position[2], w)

\* SpatialResource.add_item(length, width) on the grid g: the dict is not touched.
SpatialResource_add_item(self, g, placements, length, width) ==
    LET found == _find_optimal_placement(self, g, length, width)
    IN  IF found = None
        THEN Outcome(FALSE, g, placements)
        ELSE Outcome(TRUE, g \cup ItemCells(self, length, width, found), placements)

\* SpatialResource.remove_item(length, width): the body is commented out.
SpatialResource_remove_item(self, g, placements, length, width) ==
    Outcome(FALSE, g, placements)

\* What can_add_child(child) returns, by variant.
CanAddChild(self, child) ==
    IF self \in QuantityResource THEN QuantityResource_can_add_child(self, child)
    ELSE IF self \in SpatialResource THEN SpatialResource_can_add_child(self, child)
    ELSE Item_can_add_child(self, child)

\* What add_child_resource(child) returns, by variant.
AddReturns(self, child) ==
    IF self \in QuantityResource
    THEN QuantityResource_add_child_resource(self, _children[self], child).ret
    ELSE IF self \in SpatialResource
    THEN SpatialResource_add_child_resource(self, grid[self],
             _children_placements[self], child).ret
    ELSE Item_add_child_resource(self, child)

\* What remove_child_resource(child) returns, by variant.
RemoveReturns(self, child) ==
    IF self \in QuantityResource
    THEN QuantityResource_remove_child_resource(self, _children[self], child).ret
    ELSE IF self \in SpatialResource
    THEN SpatialResource_remove_child_resource(self, grid[self],
             _children_placements[self], child).ret
    ELSE Item_remove_child_resource(self, child)

\* A call on a SpatialResource returns: its outcome becomes the state.
Commit(self, outcome) ==
    /\ ret' = outcome.ret
    /\ grid' = [grid EXCEPT ![self] = outcome.grid]
    /\ _children_placements' =
           [_children_placements EXCEPT ![self] = outcome._children_placements]
    /\ UNCHANGED _children

\* A call on a QuantityResource returns: its outcome becomes the state.
QuantityCommit(self, outcome) ==
    /\ ret' = outcome.ret
    /\ _children' = [_children EXCEPT ![self] = outcome._children]
    /\ UNCHANGED <<grid, _children_placements>>

\* can_add_child with temp_grid = self.grid for temp_grid = self.grid.copy(): the
\* marks for the existing children land in the live grid of a SpatialResource.
can_add_child_without_copy(self, child) ==
    /\ op' = "can_add_child"
    /\ ret' = CanAddChild(self, child)
    /\ grid' = IF self \in SpatialResource
               THEN [grid EXCEPT ![self] = ProbeGrid(self)]
               ELSE grid
    /\ UNCHANGED <<dimensions, grid_precision, max_items, _children_placements,
                   _children, frame, lock, recipe>>

\* Resource.can_add_child(child): a probe.
can_add_child(self, child) ==
    /\ op' = "can_add_child"
    /\ ret' = CanAddChild(self, child)
    /\ UNCHANGED <<dimensions, grid_precision, max_items, grid, _children_placements,
                   _children, frame, lock, recipe>>

\* Resource.add_child_resource(child), by variant.
add_child_resource(self, child) ==
    /\ op' = "add_child_resource"
    /\ IF self \in QuantityResource
       THEN QuantityCommit(self, QuantityResource_add_child_resource(self,
                                     _children[self], child))
       ELSE IF self \in SpatialResource
       THEN Commit(self, SpatialResource_add_child_resource(self, grid[self],
                             _children_placements[self], child))
       ELSE /\ ret' = Item_add_child_resource(self, child)
            /\ UNCHANGED <<grid, _children_placements, _children>>
    /\ UNCHANGED <<dimensions, grid_precision, max_items, frame, lock, recipe>>

\* Resource.remove_child_resource(child), by variant.
remove_child_resource(self, child) ==
    /\ op' = "remove_child_resource"
    /\ IF self \in QuantityResource
       THEN QuantityCommit(self, QuantityResource_remove_child_resource(self,
                                     _children[self], child))
       ELSE IF self \in SpatialResource
       THEN Commit(self, SpatialResource_remove_child_resource(self, grid[self],
                             _children_placements[self], child))
       ELSE /\ ret' = Item_remove_child_resource(self, child)
            /\ UNCHANGED <<grid, _children_placements, _children>>
    /\ UNCHANGED <<dimensions, grid_precision, max_items, frame, lock, recipe>>

\* SpatialResource.add_item(length, width)
add_item(self, length, width) ==
    /\ op' = "add_item"
    /\ Commit(self, SpatialResource_add_item(self, grid[self],
                        _children_placements[self], length, width))
    /\ UNCHANGED <<dimensions, grid_precision, max_items, frame, lock, recipe>>

\* SpatialResource.remove_item(length, width)
remove_item(self, length, width) ==
    /\ op' = "remove_item"
    /\ Commit(self, SpatialResource_remove_item(self, grid[self],
                        _children_placements[self], length, width))
    /\ UNCHANGED <<dimensions, grid_precision, max_items, frame, lock, recipe>>

\* ------------------------------------------------ concurrent callers

\* A thread calls add_child_resource(child) and runs it up to the test of placement
\* (lines 164-174): it returns False, or it holds a placement found on the grid as
\* it is now. Callers that use the lock take it first and release it on return.
add_child_resource_search(t, self, child) ==
    /\ frame[t] = None
    /\ lock \in {"unused", "free"}
    /\ LET child_length == _to_grid_units(self, dimensions[child].length)
           child_width == _to_grid_units(self, dimensions[child].width)
           found == IF IsSpatialOrItem(child)
                    THEN _find_optimal_placement_on_grid(self, child_length,
                             child_width, grid[self])
                    ELSE None
       IN  IF found = None
           THEN /\ op' = "add_child_resource"
                /\ ret' = FALSE
                /\ UNCHANGED <<frame, lock>>
           ELSE /\ frame' = [frame EXCEPT
                                ![t] = [self |-> self, child |-> child,
                                        placement |-> found]]
                /\ lock' = IF lock = "unused" THEN lock ELSE t
                /\ UNCHANGED <<op, ret>>
    /\ UNCHANGED <<dimensions, grid_precision, max_items, grid, _children_placements,
                   _children, recipe>>

\* The thread runs the rest of its add_child_resource (lines 176-184): it marks the
\* rectangle of its placement, stores the placement and returns True.
add_child_resource_mark(t) ==
    /\ frame[t] # None
    /\ LET self == frame[t].self
           child == frame[t].child
           child_length == _to_grid_units(self, dimensions[child].length)
           child_width == _to_grid_units(self, dimensions[child].width)
       IN  /\ grid' = [grid EXCEPT ![self] = grid[self] \cup
                           MarkedCells(self, child_length, child_width,
                                       frame[t].placement)]
           /\ _children_placements' =
                  [_children_placements EXCEPT
                       ![self] = Put(_children_placements[self], child,
                                     frame[t].placement)]
    /\ op' = "add_child_resource"
    /\ ret' = TRUE
    /\ frame' = [frame EXCEPT ![t] = None]
    /\ lock' = IF lock = "unused" THEN lock ELSE "free"
    /\ UNCHANGED <<dimensions, grid_precision, max_items, _children, recipe>>

\* A thread calls remove_child_resource(child), which runs in one piece.
remove_child_resource_by(t, self, child) ==
    /\ frame[t] = None
    /\ lock \in {"unused", "free"}
    /\ remove_child_resource(self, child)

\* ------------------------------------------- the search, step by step

\* A thread enters _find_optimal_placement_on_grid(length, width, self.grid) for a
\* child's footprint (lines 259-264): its frame holds the anchors of the two nested
\* for loops in order, the index of the next one, best_placement and min_waste.
search_enter(t, self, child) ==
    /\ frame[t] = None
    /\ frame' = [frame EXCEPT
                    ![t] = [self |-> self,
                            scan |-> ScanOrder(GridShape(self),
                                         _to_grid_units(self, dimensions[child].length),
                                         _to_grid_units(self, dimensions[child].width)),
                            i |-> 1,
                            best_placement |-> None,
                            min_waste |-> Inf]]
    /\ UNCHANGED <<dimensions, grid_precision, max_items, grid, _children_placements,
                   _children, op, ret, lock, recipe>>

\* search_iterate that goes on to the next anchor only after a free one.
search_iterate_stuck(t) ==
    /\ frame[t] # None
    /\ frame[t].i <= Len(frame[t].scan)
    /\ LET self == frame[t].self
           a == frame[t].scan[frame[t].i]
           free == IsFree(GridShape(self), grid[self], a)
           better == free /\ Improves(Waste(GridShape(self), grid[self], a),
                                      frame[t].min_waste)
       IN  frame' = [frame EXCEPT
                        ![t].i = IF free THEN @ + 1 ELSE @,
                        ![t].best_placement = IF better THEN NewPlacement(self, a) ELSE @,
                        ![t].min_waste = IF better
                                         THEN Waste(GridShape(self), grid[self], a)
                                         ELSE @]
    /\ UNCHANGED <<dimensions, grid_precision, max_items, grid, _children_placements,
                   _children, op, ret, lock, recipe>>

\* One iteration of the loop body (lines 271-297) for the next anchor.
search_iterate(t) ==
    /\ frame[t] # None
    /\ frame[t].i <= Len(frame[t].scan)
    /\ LET self == frame[t].self
           a == frame[t].scan[frame[t].i]
           better == /\ IsFree(GridShape(self), grid[self], a)
                     /\ Improves(Waste(GridShape(self), grid[self], a),
                                 frame[t].min_waste)
       IN  frame' = [frame EXCEPT
                        ![t].i = @ + 1,
                        ![t].best_placement = IF better THEN NewPlacement(self, a) ELSE @,
                        ![t].min_waste = IF better
                                         THEN Waste(GridShape(self), grid[self], a)
                                         ELSE @]
    /\ UNCHANGED <<dimensions, grid_precision, max_items, grid, _children_placements,
                   _children, op, ret, lock, recipe>>

\* The loops are exhausted: return best_placement (line 299).
search_return(t) ==
    /\ frame[t] # None
    /\ frame[t].i > Len(frame[t].scan)
    /\ op' = "_find_optimal_placement_on_grid"
    /\ ret' = frame[t].best_placement
    /\ frame' = [frame EXCEPT ![t] = None]
    /\ UNCHANGED <<dimensions, grid_precision, max_items, grid, _children_placements,
                   _children, lock, recipe>>

\* ---------------------------------------------------- specification

\* The sizes an Item is constructed with.
ItemDimensions == {Dimensions(l, w) : l \in 1..MaxDim, w \in 1..MaxDim}

\* The state after the constructors have run: the oven, the rack of the given size
\* and grid_precision with an all-False grid and no placements, and the Items
\* (sizes maps the rack and every Item constructed to its Dimensions).
Construction(sizes, precision) ==
    /\ dimensions = sizes
    /\ grid_precision = [r \in SpatialResource |-> precision]
    /\ max_items = [q \in QuantityResource |-> OvenMaxItems]
    /\ grid = [r \in SpatialResource |-> {}]
    /\ _children_placements = [r \in SpatialResource |-> <<>>]
    /\ _children = [q \in QuantityResource |-> <<>>]
    /\ op = "__init__"
    /\ ret = TRUE
    /\ frame = [t \in Thread |-> None]
    /\ lock = "unused"
    /\ recipe = None

\* Two Items of any sizes; they are interchangeable, so "a" is the one whose size
\* comes first.
TwoItems(rack) ==
    \E a, b \in ItemDimensions :
        /\ \/ a.length < b.length
           \/ a.length = b.length /\ a.width <= b.width
        /\ Construction(("rack" :> rack) @@ ("a" :> a) @@ ("b" :> b), RackGridPrecision)

\* The state after construction: main()'s rack and oven, and two Items.
Init == TwoItems(Dimensions(RackLength, RackWidth))

\* The calls on the rack: it is offered both Items and the oven.
Next ==
    \E self \in SpatialResource : \E child \in Constructed \ {self} :
        \/ can_add_child(self, child)
        \/ add_child_resource(self, child)
        \/ remove_child_resource(self, child)

Spec == Init /\ [][Next]_vars

\* The same calls on a rack one cell shorter and one cell narrower, which the
\* larger Items fit in neither orientation.
InitSmall ==
    TwoItems(Dimensions(RackLength - RackGridPrecision, RackWidth - RackGridPrecision))

SpecSmall == InitSmall /\ [][Next]_vars

\* A rack of 4.0 x 4.0 with the default grid_precision, two Items of 2.0 x 2.0 and
\* one of 3.0 x 3.0.
InitScenario ==
    Construction(
        ("rack" :> Dimensions(4 * DefaultGridPrecision, 4 * DefaultGridPrecision))
        @@ ("a" :> Dimensions(2 * DefaultGridPrecision, 2 * DefaultGridPrecision))
        @@ ("b" :> Dimensions(2 * DefaultGridPrecision, 2 * DefaultGridPrecision))
        @@ ("c" :> Dimensions(3 * DefaultGridPrecision, 3 * DefaultGridPrecision)),
        DefaultGridPrecision)

SpecScenario == InitScenario /\ [][Next]_vars

\* Two threads call add_child_resource and remove_child_resource on the rack, with
\* the steps of their adds interleaved; in some runs every call is made under one
\* exclusive lock, in the others under none.
InitRace ==
    \E locking \in BOOLEAN :
        /\ dimensions = ("rack" :> Dimensions(RackLength, RackWidth))
                         @@ ("a" :> Dimensions(RackGridPrecision, RackGridPrecision))
                         @@ ("b" :> Dimensions(RackGridPrecision, 2 * RackGridPrecision))
        /\ grid_precision = [r \in SpatialResource |-> RackGridPrecision]
        /\ max_items = [q \in QuantityResource |-> OvenMaxItems]
        /\ grid = [r \in SpatialResource |-> {}]
        /\ _children_placements = [r \in SpatialResource |-> <<>>]
        /\ _children = [q \in QuantityResource |-> <<>>]
        /\ op = "__init__"
        /\ ret = TRUE
        /\ frame = [t \in Thread |-> None]
        /\ lock = IF locking THEN "free" ELSE "unused"
        /\ recipe = None

NextRace ==
    \E t \in Thread :
        \/ \E self \in SpatialResource : \E child \in Constructed \cap Item :
               \/ add_child_resource_search(t, self, child)
               \/ remove_child_resource_by(t, self, child)
        \/ add_child_resource_mark(t)

SpecRace == InitRace /\ [][NextRace]_vars

\* The search on any grid of the rack, for an Item of any footprint from no cell to
\* one cell more than the rack is long.
SearchLengths ==
    {1} \cup {k * RackGridPrecision :
                 k \in 1..(RackLength \div RackGridPrecision + 1)}

InitSearch ==
    /\ dimensions \in
           {("rack" :> Dimensions(RackLength, RackWidth)) @@ ("a" :> Dimensions(l, w)) :
                l \in SearchLengths, w \in SearchLengths}
    /\ grid_precision = [r \in SpatialResource |-> RackGridPrecision]
    /\ max_items = [q \in QuantityResource |-> OvenMaxItems]
    /\ grid \in [SpatialResource -> SUBSET Cells("rack")]
    /\ _children_placements = [r \in SpatialResource |-> <<>>]
    /\ _children = [q \in QuantityResource |-> <<>>]
    /\ op = "__init__"
    /\ ret = None
    /\ frame = [t \in Thread |-> None]
    /\ lock = "unused"
    /\ recipe = None

NextSearch ==
    \/ \E self \in SpatialResource : \E child \in Constructed \cap Item :
           search_enter("t1", self, child)
    \/ search_iterate("t1")
    \/ search_return("t1")

\* The thread that is inside the search keeps running it.
SpecSearch ==
    /\ InitSearch
    /\ [][NextSearch]_vars
    /\ WF_vars(search_iterate("t1"))
    /\ WF_vars(search_return("t1"))

\* The lengths and widths add_item and remove_item are called with: 1.0 and 2.0.
ItemLengths == {DefaultGridPrecision, 2 * DefaultGridPrecision}

\* The rack with an Item of one cell and an Item of 1x2 cells, and the
\* dimension-keyed calls next to the calls with children.
InitItems ==
    Construction(("rack" :> Dimensions(RackLength, RackWidth))
                 @@ ("a" :> Dimensions(RackGridPrecision, RackGridPrecision))
                 @@ ("b" :> Dimensions(RackGridPrecision, 2 * RackGridPrecision)),
                 RackGridPrecision)

NextItems ==
    \/ Next
    \/ \E self \in SpatialResource : \E length, width \in ItemLengths :
           \/ add_item(self, length, width)
           \/ remove_item(self, length, width)

SpecItems == InitItems /\ [][NextItems]_vars

\* The calls on every variant, with one Item in play: the rack, the oven and the
\* Item "a" are receivers, and each is offered the other two.
InitTree == Init /\ dimensions["b"] = dimensions["a"]

NextTree ==
    \E self \in Constructed \ {"b"} : \E child \in Constructed \ {self, "b"} :
        \/ can_add_child(self, child)
        \/ add_child_resource(self, child)
        \/ remove_child_resource(self, child)

SpecTree == InitTree /\ [][NextTree]_vars

\* ----------------------------------------------------- constructors

\* A call that ended in an exception instead of returning.
Raised(exception) == [raised |-> exception]

ConstructorArguments == (0 - MaxArgument)..MaxArgument

\* QuantityResource(resource_type, max_items): the attributes are assigned as given.
QuantityResource__init__(self, n) ==
    /\ self \notin Constructed
    /\ op' = "__init__"
    /\ ret' = None
    /\ max_items' = max_items @@ (self :> n)
    /\ _children' = _children @@ (self :> <<>>)
    /\ UNCHANGED <<dimensions, grid_precision, grid, _children_placements,
                   frame, lock, recipe>>

\* SpatialResource(resource_type, length, width, grid_precision=precision):
\* length / grid_precision raises ZeroDivisionError for a zero precision and
\* np.zeros raises ValueError for a negative grid_length or grid_width; otherwise
\* the attributes are assigned as given and the grid is all False.
SpatialResource__init__(self, length, width, precision) ==
    /\ self \notin Constructed
    /\ op' = "__init__"
    /\ IF precision = 0
       THEN /\ ret' = Raised("ZeroDivisionError")
            /\ UNCHANGED <<dimensions, grid_precision, grid, _children_placements>>
       ELSE IF \/ IntOfQuotient(length, precision) < 0
               \/ IntOfQuotient(width, precision) < 0
       THEN /\ ret' = Raised("ValueError")
            /\ UNCHANGED <<dimensions, grid_precision, grid, _children_placements>>
       ELSE /\ ret' = None
            /\ dimensions' = dimensions @@ (self :> Dimensions(length, width))
            /\ grid_precision' = grid_precision @@ (self :> precision)
            /\ grid' = grid @@ (self :> {})
            /\ _children_placements' = _children_placements @@ (self :> <<>>)
    /\ UNCHANGED <<max_items, _children, frame, lock, recipe>>

\* Item(length, width, name): the dimensions are assigned as given.
Item__init__(self, length, width) ==
    /\ self \notin Constructed
    /\ op' = "__init__"
    /\ ret' = None
    /\ dimensions' = dimensions @@ (self :> Dimensions(length, width))
    /\ UNCHANGED <<grid_precision, max_items, grid, _children_placements, _children,
                   frame, lock, recipe>>

\* Before any constructor has run: no resource exists.
InitConstruct ==
    /\ dimensions = <<>>
    /\ grid_precision = <<>>
    /\ max_items = <<>>
    /\ grid = <<>>
    /\ _children_placements = <<>>
    /\ _children = <<>>
    /\ op = "main"
    /\ ret = None
    /\ frame = [t \in Thread |-> None]
    /\ lock = "unused"
    /\ recipe = None

\* The constructors, called with any arguments: an oven, a rack and an Item.
NextConstruct ==
    \/ \E n \in ConstructorArguments : QuantityResource__init__("oven", n)
    \/ \E length, width, precision \in ConstructorArguments :
           SpatialResource__init__("rack", length, width, precision)
    \/ \E length, width \in ConstructorArguments : Item__init__("a", length, width)

SpecConstruct == InitConstruct /\ [][NextConstruct]_vars

\* ------------------------------------------------------------ Recipe

\* Money, a Decimal, is counted in thousandths: Decimal('5.00') is 5000 and
\* Decimal('0.002') is 2. Where a call returns a Decimal or a target margin may be
\* None, the number is wrapped so that it differs from None and from an exception.
Decimal(value) == [decimal |-> value]

\* main()'s first ingredient and its cost_per_unit, Decimal('0.002').
IngredientName == {"bread flour"}
CostPerUnit == [name \in IngredientName |-> 2]

\* The quantity an ingredient is added with.
Quantities == {MaxQuantity \div 2}

\* main()'s mixing and lamination stages: labor_cost_per_hour, the duration in
\* quarters of an hour (15 and 30 minutes), and the sum of the resource_costs.
RecipeStage == {"mixing", "lamination"}
labor_cost_per_hour == ("mixing" :> 20000) @@ ("lamination" :> 25000)
QuarterHours == ("mixing" :> 1) @@ ("lamination" :> 2)
resource_costs == ("mixing" :> 5000) @@ ("lamination" :> 500)

\* RecipeStage.get_labor_cost: labor_cost_per_hour * get_duration_hours()
RecipeStage_get_labor_cost(stage) == (labor_cost_per_hour[stage] * QuarterHours[stage]) \div 4

\* RecipeStage.get_resource_cost: sum(cost * duration_hours)
RecipeStage_get_resource_cost(stage) == (resource_costs[stage] * QuarterHours[stage]) \div 4

\* The selling prices, overhead costs and target margins the calls are given.
SellingPrices == {3500}
OverheadCosts == {0, 5000}
TargetMargins == {35, 50}

\* The factors scale_recipe is called with, as <<numerator, denominator>>: 0.5
\* and 2.0.
Factors == {<<1, 2>>, <<2, 1>>}

\* The counts set_servings is called with: the powers of two up to MaxServings,
\* for which count / self.servings, self.servings * factor and the Decimal
\* division by the servings are exact.
ServingCounts == {n \in 1..MaxServings : n \in {1, 2, 4, 8, 16}}

\* Recipe(name, selling_price, overhead_cost, target_profit_margin): the dict
\* self.ingredients maps a name to its Ingredient, or to None while it has no item
\* of that name.
Recipe__init__(selling_price, overhead_cost, target_profit_margin) ==
    [ingredients |-> [name \in IngredientName |-> None],
     stages |-> <<>>,
     selling_price |-> selling_price,
     overhead_cost |-> overhead_cost,
     servings |-> 1,
     target_profit_margin |-> target_profit_margin,
     _auto_calculate_price |-> target_profit_margin # None]

\* A call on the Recipe that returned True or False.
Returned(value) == [returned |-> value]

\* What a call on the Recipe returns (None, or Returned(value)) or raises, and
\* leaves behind.
RecipeOutcome(result, r) == [ret |-> result, recipe |-> r]

RECURSIVE SumOver(_, _)
SumOver(S, f) ==
    IF S = {} THEN 0
    ELSE LET x == CHOOSE y \in S : TRUE IN f[x] + SumOver(S \ {x}, f)

\* Ingredient.get_cost: Decimal(str(self.quantity)) * self.cost_per_unit
Ingredient_get_cost(ingredient) == ingredient.quantity * ingredient.cost_per_unit

\* Ingredient.scale: self.quantity *= factor
Ingredient_scale(ingredient, factor) ==
    [ingredient EXCEPT !.quantity = (ingredient.quantity * factor[1]) \div factor[2]]

\* The keys of self.ingredients.
IngredientNames(r) == {name \in IngredientName : r.ingredients[name] # None}

\* Recipe.get_ingredients_cost
get_ingredients_cost(r) ==
    SumOver(IngredientNames(r),
            [name \in IngredientNames(r) |-> Ingredient_get_cost(r.ingredients[name])])

\* Recipe.get_labor_cost
get_labor_cost(r) ==
    SumOver(DOMAIN r.stages,
            [i \in DOMAIN r.stages |-> RecipeStage_get_labor_cost(r.stages[i])])

\* Recipe.get_resource_cost
get_resource_cost(r) ==
    SumOver(DOMAIN r.stages,
            [i \in DOMAIN r.stages |-> RecipeStage_get_resource_cost(r.stages[i])])

\* Recipe.get_total_production_cost
get_total_production_cost(r) ==
    get_ingredients_cost(r) + get_labor_cost(r) + get_resource_cost(r) + r.overhead_cost

\* What Decimal division by Decimal('0') raises: InvalidOperation for 0 / 0 and
\* DivisionByZero otherwise.
DivisionByZero(dividend) ==
    IF dividend = 0 THEN Raised("InvalidOperation") ELSE Raised("DivisionByZero")

DivisionErrors == {Raised("InvalidOperation"), Raised("DivisionByZero")}

\* Recipe.get_cost_per_serving: the quotient as <<dividend, divisor>>.
get_cost_per_serving(r) ==
    IF r.servings = 0
    THEN DivisionByZero(get_total_production_cost(r))
    ELSE Decimal(<<get_total_production_cost(r), r.servings>>)

\* suggested_price.quantize(Decimal('0.01')) for the price dividend / divisor in
\* hundredths: rounded to the nearest, a tie to the even neighbour.
quantize(dividend, divisor) ==
    LET q == dividend \div divisor
        r == dividend % divisor
    IN  IF 2 * r < divisor THEN q
        ELSE IF 2 * r > divisor THEN q + 1
        ELSE IF q % 2 = 0 THEN q ELSE q + 1

\* Recipe.suggest_selling_price for servings # 0:
\* cost_per_serving * (1 + target_margin / Decimal('100')), quantized.
suggest_selling_price(r, target_margin) ==
    10 * quantize(get_total_production_cost(r) * (100 + target_margin),
                  100 * r.servings * 10)

\* Recipe.calculate_price_from_margin
calculate_price_from_margin(r) ==
    IF r.target_profit_margin = None
    THEN RecipeOutcome(Decimal(r.selling_price), r)
    ELSE IF r.servings = 0
    THEN RecipeOutcome(get_cost_per_serving(r), r)
    ELSE LET price == suggest_selling_price(r, r.target_profit_margin.decimal)
         IN  RecipeOutcome(Decimal(price), [r EXCEPT !.selling_price = price])

\* The end of a call that changes a cost: it returns None after
\*   if self._auto_calculate_price: self.calculate_price_from_margin()
Recalculated(r) ==
    IF r._auto_calculate_price
    THEN LET out == calculate_price_from_margin(r)
         IN  RecipeOutcome(IF out.ret \in DivisionErrors THEN out.ret ELSE None,
                           out.recipe)
    ELSE RecipeOutcome(None, r)

\* Recipe.add_ingredient
Recipe_add_ingredient(r, name, quantity, cost) ==
    Recalculated([r EXCEPT !.ingredients[name] =
        [quantity |-> quantity, cost_per_unit |-> cost]])

\* Recipe.remove_ingredient
Recipe_remove_ingredient(r, ingredient_name) ==
    IF ingredient_name \in IngredientNames(r)
    THEN RecipeOutcome(Returned(TRUE), [r EXCEPT !.ingredients[ingredient_name] = None])
    ELSE RecipeOutcome(Returned(FALSE), r)

\* Recipe.scale_recipe
Recipe_scale_recipe(r, factor) ==
    Recalculated([r EXCEPT
        !.ingredients = [name \in IngredientName |->
                            IF name \in IngredientNames(r)
                            THEN Ingredient_scale(r.ingredients[name], factor)
                            ELSE None],
        !.servings = IntOfQuotient(r.servings * factor[1], factor[2])])

\* Recipe.set_servings: count / self.servings raises ZeroDivisionError.
Recipe_set_servings(r, count) ==
    IF count > 0
    THEN IF r.servings = 0
         THEN RecipeOutcome(Raised("ZeroDivisionError"), r)
         ELSE Recipe_scale_recipe(r, <<count, r.servings>>)
    ELSE RecipeOutcome(None, r)

\* Recipe.set_selling_price
Recipe_set_selling_price(r, price) ==
    RecipeOutcome(None, [r EXCEPT !.selling_price = price])

\* Recipe.set_overhead_cost
Recipe_set_overhead_cost(r, cost) ==
    Recalculated([r EXCEPT !.overhead_cost = cost])

\* Recipe.add_stage
Recipe_add_stage(r, stage) ==
    Recalculated([r EXCEPT !.stages = Append(r.stages, stage)])

\* Recipe.remove_stage
Recipe_remove_stage(r, stage) ==
    IF IsIn(r.stages, stage)
    THEN RecipeOutcome(Returned(TRUE), [r EXCEPT !.stages = ListRemove(r.stages, stage)])
    ELSE RecipeOutcome(Returned(FALSE), r)

\* Recipe.set_target_profit_margin
Recipe_set_target_profit_margin(r, margin, auto_update_price) ==
    LET set == [r EXCEPT !.target_profit_margin = margin,
                         !._auto_calculate_price = auto_update_price]
    IN  IF auto_update_price
        THEN LET out == calculate_price_from_margin(set)
             IN  RecipeOutcome(IF out.ret \in DivisionErrors THEN out.ret ELSE None,
                               out.recipe)
        ELSE RecipeOutcome(None, set)

\* The quantities stay whole numbers up to MaxQuantity, and the servings up to
\* MaxServings, under the factor.
Scalable(r, factor) ==
    /\ \A name \in IngredientNames(r) :
           /\ (r.ingredients[name].quantity * factor[1]) % factor[2] = 0
           /\ (r.ingredients[name].quantity * factor[1]) \div factor[2] <= MaxQuantity
    /\ (r.servings * factor[1]) \div factor[2] <= MaxServings

\* A call on the Recipe returns or raises: its outcome becomes the state.
RecipeCommit(name, outcome) ==
    /\ op' = name
    /\ ret' = outcome.ret
    /\ recipe' = outcome.recipe
    /\ UNCHANGED <<dimensions, grid_precision, max_items, grid, _children_placements,
                   _children, frame, lock>>

add_ingredient(name, quantity, cost) ==
    RecipeCommit("add_ingredient", Recipe_add_ingredient(recipe, name, quantity, cost))

remove_ingredient(ingredient_name) ==
    RecipeCommit("remove_ingredient", Recipe_remove_ingredient(recipe, ingredient_name))

scale_recipe(factor) ==
    /\ Scalable(recipe, factor)
    /\ RecipeCommit("scale_recipe", Recipe_scale_recipe(recipe, factor))

set_servings(count) ==
    /\ recipe.servings # 0 => Scalable(recipe, <<count, recipe.servings>>)
    /\ RecipeCommit("set_servings", Recipe_set_servings(recipe, count))

set_selling_price(price) ==
    RecipeCommit("set_selling_price", Recipe_set_selling_price(recipe, price))

set_overhead_cost(cost) ==
    RecipeCommit("set_overhead_cost", Recipe_set_overhead_cost(recipe, cost))

add_stage(stage) ==
    /\ Len(recipe.stages) < MaxStages
    /\ RecipeCommit("add_stage", Recipe_add_stage(recipe, stage))

remove_stage(stage) ==
    RecipeCommit("remove_stage", Recipe_remove_stage(recipe, stage))

set_target_profit_margin(margin, auto_update_price) ==
    RecipeCommit("set_target_profit_margin",
                 Recipe_set_target_profit_margin(recipe, margin, auto_update_price))

\* The state after main() has constructed one of its two recipes: the one priced
\* by hand, or the one with a target margin of 35.
InitRecipe ==
    /\ dimensions = <<>>
    /\ grid_precision = <<>>
    /\ max_items = <<>>
    /\ grid = <<>>
    /\ _children_placements = <<>>
    /\ _children = <<>>
    /\ op = "__init__"
    /\ ret = None
    /\ frame = [t \in Thread |-> None]
    /\ lock = "unused"
    /\ recipe \in {Recipe__init__(3500, 5000, None),
                   Recipe__init__(0, 5000, Decimal(35))}

\* The calls on the Recipe.
NextRecipe ==
    \/ \E name \in IngredientName : \E quantity \in Quantities :
           add_ingredient(name, quantity, CostPerUnit[name])
    \/ \E name \in IngredientName : remove_ingredient(name)
    \/ \E factor \in Factors : scale_recipe(factor)
    \/ \E count \in ServingCounts : set_servings(count)
    \/ \E price \in SellingPrices : set_selling_price(price)
    \/ \E cost \in OverheadCosts : set_overhead_cost(cost)
    \/ \E stage \in RecipeStage : add_stage(stage)
    \/ \E stage \in RecipeStage : remove_stage(stage)
    \/ \E margin \in TargetMargins : \E auto_update_price \in BOOLEAN :
           set_target_profit_margin(Decimal(margin), auto_update_price)

SpecRecipe == InitRecipe /\ [][NextRecipe]_vars

\* ------------------------------------------------------------ views

\* The children attached to a container.
Attached(self) ==
    IF self \in SpatialResource
    THEN {_children_placements[self][i].child : i \in 1..Len(_children_placements[self])}
    ELSE IF self \in QuantityResource
    THEN {_children[self][i] : i \in 1..Len(_children[self])}
    ELSE {}

\* The grid footprint of a child on a SpatialResource.
ChildLength(self, child) == _to_grid_units(self, dimensions[child].length)
ChildWidth(self, child) == _to_grid_units(self, dimensions[child].width)

\* The rectangle an attached child was placed on: its recorded position and the
\* extents add_child_resource marked there.
PlacedRectangle(self, child) ==
    MarkedCells(self, ChildLength(self, child), ChildWidth(self, child),
                Get(_children_placements[self], child))

\* The anchor a PlacedItem built by the search stands for.
AnchorOf(self, placement) ==
    [l |-> _to_grid_units(self, placement.dimensions.length),
     w |-> _to_grid_units(self, placement.dimensions.width),
     rotated |-> placement.rotated,
     x |-> placement.position[1],
     y |-> placement.position[2]]

\* The feasible anchors of a footprint on a grid, in scan order.
Feasible(self, length, width, g) ==
    SelectSeq(ScanOrder(GridShape(self), length, width),
              LAMBDA a : IsFree(GridShape(self), g, a))

\* A child's footprint fits the grid in neither orientation.
FitsNeither(self, child) ==
    LET cl == ChildLength(self, child)
        cw == ChildWidth(self, child)
        rows == GridShape(self)[1]
        cols == GridShape(self)[2]
    IN  /\ cl > rows \/ cw > cols
        /\ cw > rows \/ cl > cols

\* ----------------------------------------------------------- claims

\* C1: round trip. In every reachable state and for every child, when
\* add_child_resource(child) returns True, remove_child_resource(child) called next
\* returns True and leaves the grid as it was before the add, cell for cell.
RoundTrip ==
    \A self \in SpatialResource : \A child \in Constructed \ {self} :
        LET added == SpatialResource_add_child_resource(self, grid[self],
                         _children_placements[self], child)
            removed == SpatialResource_remove_child_resource(self, added.grid,
                           added._children_placements, child)
        IN  added.ret => (removed.ret /\ removed.grid = grid[self])

\* C2: no overlap. The rectangles two distinct attached children were placed on
\* share no cell.
NoOverlap ==
    \A self \in SpatialResource : \A c, d \in Attached(self) :
        c # d => PlacedRectangle(self, c) \cap PlacedRectangle(self, d) = {}

\* C3: for every variant, when can_add_child(child) returns True, add_child_resource(child)
\* called next, in the same state, returns True.
CanAddImpliesAdd ==
    \A self \in Constructed : \A child \in Constructed \ {self} :
        CanAddChild(self, child) => AddReturns(self, child)

\* C3 happens: the probe of a rack that holds a child has just returned True.
CanAddImpliesAddWitness ==
    /\ op = "can_add_child"
    /\ ret = TRUE
    /\ \E child \in Constructed \cap Item :
        /\ Attached("rack") # {}
        /\ grid["rack"] # {}
        /\ SpatialResource_can_add_child("rack", child)
        /\ AddReturns("rack", child)

\* C4: can_add_child(child) of a SpatialResource answers what add_child_resource(child)
\* would return in the same state.
CanAddAnswersAdd ==
    \A self \in SpatialResource : \A child \in Constructed \ {self} :
        SpatialResource_can_add_child(self, child) = AddReturns(self, child)

\* C5: no partial mutation. A call of add_child_resource that returns False leaves
\* the grid and the placements as they were; one that returns True records the child
\* with a placement and marks exactly that placement's rectangle, which was free.
NoPartialMutation ==
    [][op' = "add_child_resource" =>
        \A self \in SpatialResource :
            IF ret'
            THEN \E child \in Attached(self)' :
                    /\ _children_placements'[self] =
                           Put(_children_placements[self], child,
                               Get(_children_placements'[self], child))
                    /\ PlacedRectangle(self, child)' \cap grid[self] = {}
                    /\ grid'[self] = grid[self] \cup PlacedRectangle(self, child)'
            ELSE /\ grid'[self] = grid[self]
                 /\ _children_placements'[self] = _children_placements[self]]_vars

\* C5 happens: an add has just returned False on a rack that holds a child.
NoPartialMutationWitness ==
    /\ op = "add_child_resource"
    /\ ret = FALSE
    /\ Attached("rack") # {}
    /\ grid["rack"] # {}

\* C6: a cell is True exactly when it lies in the placed rectangle of exactly one
\* attached child.
GridMatchesPlacements ==
    \A self \in SpatialResource : \A cell \in Cells(self) :
        cell \in grid[self] <=>
            Cardinality({c \in Attached(self) : cell \in PlacedRectangle(self, c)}) = 1

\* C7: a call of remove_child_resource(c) that returns True removes c alone from the
\* placements, clears exactly the cells add_child_resource marked for c and leaves
\* the cells of every other attached child True.
RemoveClearsExactly ==
    [][(op' = "remove_child_resource" /\ ret') =>
        \A self \in SpatialResource :
            \E c \in Attached(self) :
                /\ _children_placements'[self] = Del(_children_placements[self], c)
                /\ grid'[self] = grid[self] \ PlacedRectangle(self, c)
                /\ \A d \in Attached(self) \ {c} :
                       PlacedRectangle(self, d) \cap grid[self] \subseteq grid'[self]]_vars

\* C8: orientation. The rectangle marked for a recorded placement has the stored
\* dimensions' extents in grid units, swapped when rotated and as stored when not.
OrientationCorrect ==
    \A self \in SpatialResource : \A c \in Attached(self) :
        LET placement == Get(_children_placements[self], c)
            marked == PlacedExtents(ChildLength(self, c), ChildWidth(self, c), placement)
            stored_length == _to_grid_units(self, placement.dimensions.length)
            stored_width == _to_grid_units(self, placement.dimensions.width)
        IN  IF placement.rotated
            THEN marked = <<stored_width, stored_length>>
            ELSE marked = <<stored_length, stored_width>>

\* C9: a stored PlacedItem carries the candidate's length and width as they were
\* before any rotation: the child's grid footprint, in real units.
StoresOriginalDimensions ==
    \A self \in SpatialResource : \A c \in Attached(self) :
        Get(_children_placements[self], c).dimensions =
            Dimensions(_from_grid_units(self, ChildLength(self, c)),
                       _from_grid_units(self, ChildWidth(self, c)))

\* C10: single ownership. No child is attached to more than one container.
SingleOwnership ==
    \A child \in Resource :
        Cardinality({self \in SpatialResource \cup QuantityResource :
                        child \in Attached(self)}) <= 1

\* C11: monotonic utilization. A call of add_child_resource leaves get_utilization()
\* of every SpatialResource at least what it was before the call, and exactly what
\* it was when the call returns False; so it never decreases along adds with no
\* remove in between.
MonotonicUtilization ==
    [][op' = "add_child_resource" =>
        \A self \in SpatialResource :
            /\ AtMost(SpatialResource_get_utilization(self),
                      SpatialResource_get_utilization(self)')
            /\ ~ret' => SpatialResource_get_utilization(self)' =
                            SpatialResource_get_utilization(self)]_vars

\* C11 happens: an add has just succeeded on a rack that then holds two children,
\* and more than half of its cells are occupied.
MonotonicUtilizationWitness ==
    /\ op = "add_child_resource"
    /\ ret = TRUE
    /\ Cardinality(Attached("rack")) = 2
    /\ ~AtMost(SpatialResource_get_utilization("rack"), <<1, 2>>)

\* C12: boundary. For a child whose grid footprint fits the grid in neither
\* orientation, can_add_child returns False and add_child_resource returns False
\* and leaves the grid and the placements as they are, in every reachable state.
OversizedFails ==
    \A self \in SpatialResource :
        \A child \in (Constructed \cap (SpatialResource \cup Item)) \ {self} :
            FitsNeither(self, child) =>
                LET added == SpatialResource_add_child_resource(self, grid[self],
                                 _children_placements[self], child)
                IN  /\ ~SpatialResource_can_add_child(self, child)
                    /\ ~added.ret
                    /\ added.grid = grid[self]
                    /\ added._children_placements = _children_placements[self]

\* C12 happens: an add has just returned False on a rack that holds one Item while
\* the other Item, which is not attached, fits in neither orientation.
OversizedFailsWitness ==
    /\ op = "add_child_resource"
    /\ ret = FALSE
    /\ grid["rack"] # {}
    /\ \E child \in (Constructed \cap Item) \ Attached("rack") :
          /\ FitsNeither("rack", child)
          /\ Attached("rack") = (Constructed \cap Item) \ {child}

\* C13: QuantityResource.add_child_resource(c) returns True exactly when the count is
\* below max_items; then c is appended at the end of the children, otherwise the
\* children are unchanged. So the count never exceeds max_items and is_full() holds
\* exactly when max_items children are attached.
QuantityAdd ==
    /\ [](\A self \in QuantityResource :
            /\ Len(QuantityResource_get_children(self)) <= max_items[self]
            /\ QuantityResource_is_full(self) <=>
                   Len(QuantityResource_get_children(self)) = max_items[self]
            /\ \A c \in Constructed \ {self} :
                   LET added == QuantityResource_add_child_resource(self,
                                    _children[self], c)
                   IN  /\ added.ret <=> Len(_children[self]) < max_items[self]
                       /\ added._children = IF added.ret
                                            THEN Append(_children[self], c)
                                            ELSE _children[self])
    /\ [][op' = "add_child_resource" =>
            \A self \in QuantityResource :
                \/ _children'[self] = _children[self]
                \/ /\ ret'
                   /\ Len(_children[self]) < max_items[self]
                   /\ \E c \in Constructed \ {self} :
                          QuantityResource_get_children(self)' =
                              Append(QuantityResource_get_children(self), c)]_vars

\* C13 happens: with max_items=2 the oven holds the rack and the Item, added in that
\* order, it is full, and an add has just returned False.
QuantityAddWitness ==
    /\ op = "add_child_resource"
    /\ ret = FALSE
    /\ max_items["oven"] = 2
    /\ QuantityResource_get_children("oven") = <<"rack", "a">>
    /\ QuantityResource_is_full("oven")

\* C14: QuantityResource.remove_child_resource(c) returns True exactly when c is among
\* the children; a child occurs at most once among them, so after a remove that
\* returns True c is no longer a child, the count is one less and the other children
\* keep their order.
QuantityRemove ==
    \A self \in QuantityResource : \A c \in Constructed \ {self} :
        LET list == QuantityResource_get_children(self)
            removed == QuantityResource_remove_child_resource(self, list, c)
        IN  /\ removed.ret <=> IsIn(list, c)
            /\ Cardinality({i \in 1..Len(list) : list[i] = c}) <= 1
            /\ removed.ret =>
                   /\ ~IsIn(removed._children, c)
                   /\ Len(removed._children) = Len(list) - 1
                   /\ removed._children = SelectSeq(list, LAMBDA e : e # c)

\* C15: remove_child_resource(c) for a child that is not attached returns False and
\* leaves the container as it is (grid and placements, or the children list); and
\* after a remove that returns True, the same remove called again returns False.
RemoveOfUnattached ==
    /\ \A self \in SpatialResource : \A c \in Constructed \ {self} :
           LET removed == SpatialResource_remove_child_resource(self, grid[self],
                              _children_placements[self], c)
               again == SpatialResource_remove_child_resource(self, removed.grid,
                            removed._children_placements, c)
           IN  /\ c \notin Attached(self) =>
                      /\ ~removed.ret
                      /\ removed.grid = grid[self]
                      /\ removed._children_placements = _children_placements[self]
               /\ removed.ret => ~again.ret
    /\ \A self \in QuantityResource : \A c \in Constructed \ {self} :
           LET removed == QuantityResource_remove_child_resource(self,
                              _children[self], c)
               again == QuantityResource_remove_child_resource(self,
                            removed._children, c)
           IN  /\ c \notin Attached(self) =>
                      (~removed.ret /\ removed._children = _children[self])
               /\ removed.ret => ~again.ret

\* C16: construction with a non-positive numeric argument fails, so no resource
\* exists with max_items <= 0 or with a non-positive length, width or
\* grid_precision.
ConstructionValidates ==
    /\ \A self \in DOMAIN max_items : max_items[self] > 0
    /\ \A self \in DOMAIN grid_precision : grid_precision[self] > 0
    /\ \A self \in DOMAIN dimensions :
           dimensions[self].length > 0 /\ dimensions[self].width > 0

\* C17: on the empty 4x4 rack, adding the first Item(2,2) returns True and places it
\* at (0,0) unrotated, with utilization 4/16; adding the second Item(2,2) next
\* returns True and places it at (0,2), with utilization 8/16; adding Item(3,3) next
\* returns False and leaves the grid, and so the utilization of 8/16, as it is.
Scenario ==
    \A self \in SpatialResource :
        (grid[self] = {} /\ _children_placements[self] = <<>>) =>
            LET first == SpatialResource_add_child_resource(self, grid[self],
                             _children_placements[self], "a")
                second == SpatialResource_add_child_resource(self, first.grid,
                              first._children_placements, "b")
                third == SpatialResource_add_child_resource(self, second.grid,
                             second._children_placements, "c")
            IN  /\ GridShape(self) = <<4, 4>>
                /\ first.ret
                /\ Get(first._children_placements, "a").position = <<0, 0>>
                /\ Get(first._children_placements, "a").rotated = FALSE
                /\ Utilization(self, first.grid) = <<4, 16>>
                /\ second.ret
                /\ Get(second._children_placements, "b").position = <<0, 2>>
                /\ Utilization(self, second.grid) = <<8, 16>>
                /\ ~third.ret
                /\ third.grid = second.grid
                /\ Utilization(self, third.grid) = <<8, 16>>

\* C17 happens: the rack holds the first Item at (0,0) and the second at (0,2), 8 of
\* its 16 cells are occupied, and an add has just returned False, as the add of
\* Item(3,3) does there.
ScenarioWitness ==
    /\ op = "add_child_resource"
    /\ ret = FALSE
    /\ Keys(_children_placements["rack"]) = <<"a", "b">>
    /\ Get(_children_placements["rack"], "a").position = <<0, 0>>
    /\ Get(_children_placements["rack"], "b").position = <<0, 2>>
    /\ SpatialResource_get_utilization("rack") = <<8, 16>>
    /\ ~AddReturns("rack", "c")

\* C18: can_add_child is a pure probe. A call of can_add_child, on any variant and
\* whatever it returns, leaves every grid, every child-to-placement mapping and
\* every children list as it was.
ProbeIsPure ==
    [][op' = "can_add_child" =>
        /\ grid' = grid
        /\ _children_placements' = _children_placements
        /\ _children' = _children]_vars

\* C18 happens: a probe has just returned True while the rack and the oven hold
\* children and the probe's scratch grid of the rack differs from the live grid.
ProbeIsPureWitness ==
    /\ op = "can_add_child"
    /\ ret = TRUE
    /\ Attached("rack") # {}
    /\ Attached("oven") # {}
    /\ ProbeGrid("rack") # grid["rack"]

\* C19: an Item is a terminal leaf. In every state can_add_child, add_child_resource
\* and remove_child_resource of an Item return False for every argument,
\* get_children() is empty, and is_full() and is_empty() are both True.
ItemIsLeaf ==
    \A self \in Constructed \cap Item :
        /\ \A child \in Constructed \ {self} :
               /\ ~CanAddChild(self, child)
               /\ ~AddReturns(self, child)
               /\ ~RemoveReturns(self, child)
        /\ Item_get_children(self) = <<>>
        /\ Attached(self) = {}
        /\ Item_is_full(self)
        /\ Item_is_empty(self)

\* C19 happens: an add has just returned False while the Item "a" is itself attached
\* to the rack and to the oven, and the Item would take neither of them.
ItemIsLeafWitness ==
    /\ op = "add_child_resource"
    /\ ret = FALSE
    /\ "a" \in Attached("rack")
    /\ "a" \in Attached("oven")
    /\ ~AddReturns("a", "rack")
    /\ ~AddReturns("a", "oven")

\* C20: minimum waste. Whenever the search returns a placement for a child on the
\* grid, the waste of that placement is at most the waste of every feasible
\* (orientation, x, y) on that grid.
MinimumWaste ==
    \A self \in SpatialResource : \A child \in Constructed \cap Item :
        LET feasible == Feasible(self, ChildLength(self, child),
                            ChildWidth(self, child), grid[self])
            best == _find_optimal_placement_on_grid(self, ChildLength(self, child),
                        ChildWidth(self, child), grid[self])
        IN  best # None =>
                \A i \in 1..Len(feasible) :
                    Waste(GridShape(self), grid[self], AnchorOf(self, best)) <=
                        Waste(GridShape(self), grid[self], feasible[i])

\* C20 happens: on a rack that holds a child after a successful add, the search
\* returns a placement for an Item whose first feasible anchor wastes more.
MinimumWasteWitness ==
    /\ op = "add_child_resource"
    /\ ret = TRUE
    /\ Attached("rack") # {}
    /\ \E child \in Constructed \cap Item :
          LET feasible == Feasible("rack", ChildLength("rack", child),
                              ChildWidth("rack", child), grid["rack"])
              best == _find_optimal_placement_on_grid("rack",
                          ChildLength("rack", child), ChildWidth("rack", child),
                          grid["rack"])
          IN  /\ best # None
              /\ Waste(GridShape("rack"), grid["rack"], AnchorOf("rack", best)) <
                     Waste(GridShape("rack"), grid["rack"], feasible[1])

\* C21: tie-break. Whenever the search returns a placement, it is the earliest anchor
\* in scan order (unrotated before rotated, then ascending x, then ascending y)
\* among the feasible anchors of minimum waste; so a square footprint, and any
\* footprint whose two orientations tie, is reported with rotated = False.
TieBreak ==
    \A self \in SpatialResource : \A child \in Constructed \cap Item :
        LET shape == GridShape(self)
            feasible == Feasible(self, ChildLength(self, child),
                            ChildWidth(self, child), grid[self])
            best == _find_optimal_placement_on_grid(self, ChildLength(self, child),
                        ChildWidth(self, child), grid[self])
            least == SetMin({Waste(shape, grid[self], feasible[i]) :
                                i \in 1..Len(feasible)})
            earliest == SetMin({i \in 1..Len(feasible) :
                                   Waste(shape, grid[self], feasible[i]) = least})
        IN  best # None =>
                /\ AnchorOf(self, best) = feasible[earliest]
                /\ \A i \in 1..(earliest - 1) :
                       Waste(shape, grid[self], feasible[i]) > least
                /\ ChildLength(self, child) = ChildWidth(self, child) => ~best.rotated
                /\ (\E i \in 1..Len(feasible) :
                        /\ ~feasible[i].rotated
                        /\ Waste(shape, grid[self], feasible[i]) = least)
                       => ~best.rotated

\* C21 happens: on a rack that holds a child after a successful add, an Item that is
\* not square has feasible anchors of minimum waste in both orientations, and one
\* more anchor of minimum waste after the one returned.
TieBreakWitness ==
    /\ op = "add_child_resource"
    /\ ret = TRUE
    /\ Attached("rack") # {}
    /\ grid["rack"] # {}
    /\ \E child \in Constructed \cap Item :
          LET shape == GridShape("rack")
              feasible == Feasible("rack", ChildLength("rack", child),
                              ChildWidth("rack", child), grid["rack"])
              least == SetMin({Waste(shape, grid["rack"], feasible[i]) :
                                  i \in 1..Len(feasible)})
          IN  /\ ChildLength("rack", child) # ChildWidth("rack", child)
              /\ Len(feasible) > 0
              /\ \E i, j \in 1..Len(feasible) :
                    /\ ~feasible[i].rotated
                    /\ feasible[j].rotated
                    /\ Waste(shape, grid["rack"], feasible[i]) = least
                    /\ Waste(shape, grid["rack"], feasible[j]) = least

\* C22: when every add and remove is made under one exclusive lock, no state is
\* reachable in which the recorded rectangles of two attached children share a cell.
LockedCallsDoNotOverlap ==
    lock # "unused" =>
        \A self \in SpatialResource : \A c, d \in Attached(self) :
            c # d => PlacedRectangle(self, c) \cap PlacedRectangle(self, d) = {}

\* C22, the race: without a lock two adds for different children have both searched
\* the grid before either marked its rectangle, both have returned True, and the two
\* recorded rectangles, which are all that is marked, share a cell.
RaceOverlap ==
    /\ lock = "unused"
    /\ op = "add_child_resource"
    /\ ret = TRUE
    /\ \A t \in Thread : frame[t] = None
    /\ Attached("rack") = {"a", "b"}
    /\ PlacedRectangle("rack", "a") \cap PlacedRectangle("rack", "b") # {}
    /\ grid["rack"] = PlacedRectangle("rack", "a") \cup PlacedRectangle("rack", "b")

\* C23: a move of a child c from a container A to a container B that does not hold
\* it, made as remove_child_resource(c) on A and then add_child_resource(c) on B,
\* whose remove returns True and whose add returns False, leaves c attached to
\* neither A nor B, leaves none of the cells marked for c occupied in A, and leaves B
\* as it was.
MoveLeavesDetached ==
    /\ \A A \in SpatialResource : \A B \in QuantityResource :
         \A c \in Constructed \ {A, B} :
           LET removed == SpatialResource_remove_child_resource(A, grid[A],
                              _children_placements[A], c)
               added == QuantityResource_add_child_resource(B, _children[B], c)
           IN  (c \notin Attached(B) /\ removed.ret /\ ~added.ret) =>
                   /\ ~HasKey(removed._children_placements, c)
                   /\ ~IsIn(added._children, c)
                   /\ removed.grid \cap PlacedRectangle(A, c) = {}
                   /\ added._children = _children[B]
    /\ \A A \in QuantityResource : \A B \in SpatialResource :
         \A c \in Constructed \ {A, B} :
           LET removed == QuantityResource_remove_child_resource(A, _children[A], c)
               added == SpatialResource_add_child_resource(B, grid[B],
                            _children_placements[B], c)
           IN  (c \notin Attached(B) /\ removed.ret /\ ~added.ret) =>
                   /\ ~IsIn(removed._children, c)
                   /\ ~HasKey(added._children_placements, c)
                   /\ added.grid = grid[B]
                   /\ added._children_placements = _children_placements[B]

\* C24: termination. The search visits the anchors one after the other, each at
\* most once and never more than there are, and then returns what the search
\* computes for the grid and the footprint, a placement or None; so every search
\* that is entered eventually returns.
SearchTerminates ==
    /\ \A t \in Thread : (frame[t] # None) ~> (frame[t] = None)
    /\ [][\A t \in Thread :
             /\ (frame[t] # None /\ frame'[t] # None) =>
                    /\ frame'[t].i = frame[t].i + 1
                    /\ frame[t].i <= Len(frame[t].scan)
                    /\ frame'[t].scan = frame[t].scan
             /\ (frame[t] # None /\ frame'[t] = None) =>
                    /\ frame[t].i = Len(frame[t].scan) + 1
                    /\ ret' = ScanFrom(frame[t].self, grid[frame[t].self],
                                       frame[t].scan, 1, None, Inf)]_vars

\* C24 happens: the search has returned None for an Item with a zero-cell or an
\* oversized footprint on a grid with occupied cells.
SearchTerminatesWitness ==
    /\ op = "_find_optimal_placement_on_grid"
    /\ ret = None
    /\ frame["t1"] = None
    /\ grid["rack"] # {}
    /\ \/ ChildLength("rack", "a") = 0
       \/ ChildLength("rack", "a") > GridShape("rack")[1]

\* C25: remove_item(length, width) returns False and changes neither the grid nor
\* the placements; and the cells add_item(length, width) marks stay occupied after
\* a remove_item or a remove_child_resource called next.
RemoveItemNonFunctional ==
    \A self \in SpatialResource : \A length, width \in ItemLengths :
        LET removed == SpatialResource_remove_item(self, grid[self],
                           _children_placements[self], length, width)
            added == SpatialResource_add_item(self, grid[self],
                         _children_placements[self], length, width)
            cells == added.grid \ grid[self]
        IN  /\ ~removed.ret
            /\ removed.grid = grid[self]
            /\ removed._children_placements = _children_placements[self]
            /\ added._children_placements = _children_placements[self]
            /\ added.ret =>
                   /\ \A l, w \in ItemLengths :
                          cells \subseteq
                              SpatialResource_remove_item(self, added.grid,
                                  added._children_placements, l, w).grid
                   /\ \A c \in Constructed \ {self} :
                          cells \subseteq
                              SpatialResource_remove_child_resource(self, added.grid,
                                  added._children_placements, c).grid

\* C26: a full SpatialResource accepts nothing. In every state where is_full()
\* is true, can_add_child and add_child_resource return False for every
\* candidate, also for one whose length or width is below grid_precision and
\* converts to a footprint of zero cells.
FullAcceptsNothing ==
    \A self \in SpatialResource :
        SpatialResource_is_full(self) =>
            \A child \in Constructed \ {self} :
                /\ ~CanAddChild(self, child)
                /\ ~AddReturns(self, child)

\* C27: re-adding an attached child is harmless on a SpatialResource. For a child
\* c that is in the child-to-placement mapping, add_child_resource(c) does not
\* mark a second rectangle, and after one or two more add_child_resource(c)
\* calls a single remove_child_resource(c) leaves no cell occupied that an add
\* of c marked: neither the rectangle c is placed on nor a cell of a later add.
ReAddIsHarmless ==
    \A self \in SpatialResource : \A c \in Attached(self) :
        LET again == SpatialResource_add_child_resource(self, grid[self],
                         _children_placements[self], c)
            twice == SpatialResource_add_child_resource(self, again.grid,
                         again._children_placements, c)
            marked == PlacedRectangle(self, c) \cup (twice.grid \ grid[self])
        IN  /\ again.grid = grid[self]
            /\ twice.grid = grid[self]
            /\ SpatialResource_remove_child_resource(self, again.grid,
                   again._children_placements, c).grid \cap marked = {}
            /\ SpatialResource_remove_child_resource(self, twice.grid,
                   twice._children_placements, c).grid \cap marked = {}

\* C28: emptiness agrees with the children list. In every state reachable by
\* add_child_resource and remove_child_resource on a SpatialResource, is_empty()
\* is true if and only if get_children() is empty; once every added child has
\* been removed again the grid is all-False and the utilization is 0.
EmptinessAgrees ==
    \A self \in SpatialResource :
        /\ SpatialResource_is_empty(self) <=> SpatialResource_get_children(self) = <<>>
        /\ SpatialResource_get_children(self) = <<>> =>
               /\ grid[self] = {}
               /\ SpatialResource_get_utilization(self)[1] = 0

\* C29: Recipe.servings stays a positive integer. After any sequence of
\* set_servings(count) and scale_recipe(factor) calls with factor > 0, factors
\* below 1 included, servings >= 1, so that get_cost_per_serving and a later
\* set_servings do not divide by zero; and set_servings(count) with count > 0
\* leaves servings equal to count.
ServingsStayPositive ==
    /\ recipe.servings >= 1
    /\ get_cost_per_serving(recipe) \notin DivisionErrors
    /\ \A count \in ServingCounts :
           LET set == Recipe_set_servings(recipe, count)
           IN  /\ set.ret = None
               /\ set.recipe.servings = count

\* The calls that change a cost.
CostChanging ==
    {"add_ingredient", "remove_ingredient", "add_stage", "remove_stage",
     "scale_recipe", "set_servings", "set_overhead_cost", "set_target_profit_margin"}

\* C30: the auto-pricing invariant of Recipe. While automatic price calculation
\* is enabled, after every operation that changed a cost (a remove that returned
\* True, any other one that returned) selling_price equals
\* suggest_selling_price(target_profit_margin) computed from the current costs.
AutoPricing ==
    (/\ recipe._auto_calculate_price
     /\ recipe.target_profit_margin # None
     /\ recipe.servings >= 1
     /\ op \in CostChanging
     /\ IF op \in {"remove_ingredient", "remove_stage"} THEN ret = Returned(TRUE)
        ELSE ret = None)
        => recipe.selling_price =
               suggest_selling_price(recipe, recipe.target_profit_margin.decimal)

====
